---------------------------- MODULE Spec2Model ----------------------------
(***************************************************************************)
(* State-machine model of the eVTOL aircraft data extraction scripts:      *)
(*   src/evtolnews_scrape/evtolnews_scrapefuncs.py   (site A, evtol.news)  *)
(*   src/transportup_scrape/transportup_funcs.py     (site B, TransportUP) *)
(*                                                                         *)
(* Python strings are sequences of one-character tokens ("NBSP", "CR" and  *)
(* "LF" stand for \xa0, \r and \n).  A parsed page is a tree of at most    *)
(* three levels: top-level elements, their children, and the children's    *)
(* own contents (leaves).  A function result is a record that says whether *)
(* the call returned a string, returned None, returned a list, or raised.  *)
(***************************************************************************)
EXTENDS Integers, Sequences, FiniteSets, TLC

VARIABLES
    table,          \* the caller's results table: the rows in order
    pc,             \* "idle", or "loop" while scrape_appendnew runs
    inputs_df,      \* scrape_appendnew: the directory it was given
    start_ind,      \* scrape_appendnew: argument
    stop_ind,       \* scrape_appendnew: argument
    results_df,     \* scrape_appendnew: its local table
    ind,            \* scrape_appendnew: the loop counter of enumerate
    log,            \* scrape_appendnew: fetches, appends and sleeps of this call, in order
    df_index,       \* the name of the index of the caller's table ("None" for the default index)
    una,            \* update_na: the last call (arguments, table before, rule results, outcome)
    n_updates,      \* update_na: calls made
    current,        \* check_updates: the directory table it is given
    df_tocheck,     \* check_updates: the results table it is given
    response,       \* check_updates: what it returned ("pending" before the call)
    acsoup,         \* transportup_funcs: the module's global name acsoup
    itags_soup,     \* get_devstage: its argument soup (the <i> tags of the document)
    dev_stage,      \* get_devstage: what it returned ("pending" before the call)
    autonomy,       \* assign_autonlevel: its argument x
    auton_level,    \* assign_autonlevel: what it returned ("pending" before the call)
    cdf,            \* transportup_funcs: the module's global name cdf
    drop_df,        \* drop_nullcols: the table passed as df
    nullperc,       \* drop_nullcols: the threshold, a fraction num/den
    null_cols,      \* drop_nullcols: what it returned ("pending" before the call)
    directory_df,   \* get_tu_acdata: the directory it is given
    tu_table,       \* get_tu_acdata: the caller's table, passed as results_df
    tu_fetch,       \* get_tu_acdata: link -> what get_bs4(link) did during the call
    tu_local,       \* get_tu_acdata: its local results_df when the loop ended
    tu_ret,         \* get_tu_acdata: what it returned ("pending" before the call)
    page,           \* SpecPage: the document handed to the page rules
    page_out,       \* SpecPage: rule name -> result of the rule ("pending" before the call)
    dir_soup,       \* get_aclinks: the directory page, its <ol> lists in document order
    categories,     \* get_aclinks: the category labels it is given
    ac_dict,        \* get_aclinks: what it returned ("pending" before the call)
    core_data,      \* SpecCore: the argument handed to the core-data rules
    core_out        \* SpecCore: rule name -> result of the rule ("pending" before the call)

(***************************************************************************)
(* Bounds of the model.                                                    *)
(***************************************************************************)
MaxKids == 3
MaxDir == 2
MaxUpdates == 1
MaxCols == 2
MaxLen == 3
MaxTags == 5
MaxWords == 3
MaxRows == 5
MaxBody == 3
MaxLists == 2

(***************************************************************************)
(* Python values.                                                          *)
(***************************************************************************)
Str(s) == [kind |-> "str", val |-> s]
PyNone == [kind |-> "None", val |-> <<>>]
Raise(exc) == [kind |-> "raise", val |-> <<exc>>]
Pending == [kind |-> "pending", val |-> <<>>]

NA == <<"N", "/", "A">>

Whitespace == {" ", "NBSP", "CR", "LF", "TAB"}

RECURSIVE LStrip(_)
LStrip(s) ==
    IF s # <<>> /\ Head(s) \in Whitespace THEN LStrip(Tail(s)) ELSE s

RECURSIVE RStrip(_)
RStrip(s) ==
    IF s # <<>> /\ s[Len(s)] \in Whitespace
    THEN RStrip(SubSeq(s, 1, Len(s) - 1))
    ELSE s

\* str.strip()
Strip(s) == RStrip(LStrip(s))

\* s.startswith(pat)
StartsWith(s, pat) ==
    /\ Len(pat) <= Len(s)
    /\ SubSeq(s, 1, Len(pat)) = pat

\* pat in s
Contains(s, pat) ==
    \E i \in 1..(Len(s) - Len(pat) + 1) : SubSeq(s, i, i + Len(pat) - 1) = pat

\* s.replace(pat, rep), pat not empty
RECURSIVE Replace(_, _, _)
Replace(s, pat, rep) ==
    IF s = <<>> THEN <<>>
    ELSE IF StartsWith(s, pat)
         THEN rep \o Replace(SubSeq(s, Len(pat) + 1, Len(s)), pat, rep)
         ELSE <<Head(s)>> \o Replace(Tail(s), pat, rep)

(***************************************************************************)
(* Parse-tree nodes.  A NavigableString has name "NavigableString" (its    *)
(* .name is None in bs4) and carries its characters in str.  A Tag carries *)
(* its contents in kids (a child) or, for a leaf, its one string in str.   *)
(***************************************************************************)
NavigableString == "NavigableString"

Node(n, s, hh, h, ks) == [name |-> n, str |-> s, has_href |-> hh, href |-> h, kids |-> ks]

\* a NavigableString
TextNode(s) == Node(NavigableString, s, FALSE, <<>>, <<>>)
\* <n>s</n>: a tag whose only content is the string s (no content when s is empty)
TagLeaf(n, s) == Node(n, s, FALSE, <<>>, <<>>)
\* <n>ks</n>: a tag with the contents ks
TagNode(n, ks) == Node(n, <<>>, FALSE, <<>>, ks)
\* <a href="h">s</a> and <a>s</a>
Anchor(h, s) == Node("a", s, TRUE, h, <<>>)
AnchorNoHref(s) == Node("a", s, FALSE, <<>>, <<>>)

IsTag(x) == x.name # NavigableString

\* tag.contents, and what iterating a tag yields
Contents(t) ==
    IF t.kids # <<>> THEN t.kids
    ELSE IF t.str # <<>> THEN <<TextNode(t.str)>> ELSE <<>>

RECURSIVE ConcatStr(_)
ConcatStr(ks) ==
    IF ks = <<>> THEN <<>> ELSE Head(ks).str \o ConcatStr(Tail(ks))

\* .text: the string itself, or every string below the tag
NodeText(x) == x.str \o ConcatStr(x.kids)

\* tag.get('href'): the attribute, or None
GetHref(t) == IF t.has_href THEN Str(t.href) ELSE PyNone

\* Python truth value of what .get() returned
Truthy(v) == v.kind = "str" /\ v.val # <<>>

\* The tags named n below a node with children cs, in document order
\* (find_all(n); find(n) and node.n are its first element)
RECURSIVE TagsIn(_, _)
TagsIn(cs, n) ==
    IF cs = <<>> THEN <<>>
    ELSE LET c == Head(cs)
             own == IF c.name = n THEN <<c>> ELSE <<>>
             below == SelectSeq(c.kids, LAMBDA k : k.name = n)
         IN  own \o below \o TagsIn(Tail(cs), n)

(***************************************************************************)
(* Core-data rules of site A.  core_data is what get_coredata returned:    *)
(* 'error' (err = TRUE) or the pair (index, node).                         *)
(***************************************************************************)
CoreError == [err |-> TRUE, index |-> 0, node |-> TagNode("p", <<>>)]
CorePair(i, n) == [err |-> FALSE, index |-> i, node |-> n]

get_acmodel(cd) ==
    IF cd.err THEN Str(NA)
    ELSE LET strongs == TagsIn(cd.node.kids, "strong")
         IN  IF strongs # <<>>
             THEN Str(Strip(NodeText(strongs[1])))
             ELSE Str(NA)

\* the first direct child named 'strong' (0 when there is none)
FirstStrongChild(cs) ==
    IF \E i \in 1..Len(cs) : cs[i].name = "strong"
    THEN CHOOSE i \in 1..Len(cs) :
            /\ cs[i].name = "strong"
            /\ \A j \in 1..(i - 1) : cs[j].name # "strong"
    ELSE 0

get_acoem(cd) ==
    IF cd.err THEN Str(NA)
    ELSE LET cs == cd.node.kids
             i == FirstStrongChild(cs)
         IN  IF i = 0 THEN PyNone                        \* the loop ends, no return
             ELSE IF i + 1 > Len(cs) THEN Str(NA)        \* None.name raises
             ELSE IF cs[i + 1].name # "br"
                  THEN Str(Replace(Replace(Strip(NodeText(cs[i + 1])),
                                           <<"NBSP">>, <<>>), <<"CR", "LF">>, <<>>))
             ELSE IF i + 2 > Len(cs) THEN Str(NA)        \* None.text, None.strip raise
             ELSE Str(Replace(Replace(Strip(NodeText(cs[i + 2])),
                                      <<"NBSP">>, <<>>), <<"CR", "LF">>, <<>>))

get_acextlink(cd) ==
    IF cd.err THEN Str(NA)
    ELSE LET anchors == TagsIn(cd.node.kids, "a")
         IN  IF anchors = <<>> THEN Str(NA)              \* None.get raises
             ELSE IF Truthy(GetHref(anchors[1])) THEN GetHref(anchors[1])
             ELSE Raise("UnboundLocalError")             \* weblink never assigned

\* "',' in t or 'USA' in t" for one element t of iterating a child
AddressTest(child, t) ==
    IF ~IsTag(child)
    THEN t.str = <<",">>                                 \* t is one character
    ELSE IF ~IsTag(t)
         THEN Contains(t.str, <<",">>) \/ Contains(t.str, <<"U", "S", "A">>)
         ELSE \E c \in {<<",">>, <<"U", "S", "A">>} :    \* Tag.__contains__
                 \E k \in 1..Len(Contents(t)) : Contents(t)[k].str = c

\* what iterating a child yields: its characters, or its contents
Iterate(child) ==
    IF IsTag(child) THEN Contents(child)
    ELSE [k \in 1..Len(child.str) |-> TextNode(<<child.str[k]>>)]

get_acaddress(cd) ==
    IF cd.err THEN Str(NA)
    ELSE LET cs == cd.node.kids
             hit(i) == \E k \in 1..Len(Iterate(cs[i])) :
                          AddressTest(cs[i], Iterate(cs[i])[k])
         IN  IF \E i \in 1..Len(cs) : hit(i)
             THEN LET i == CHOOSE i \in 1..Len(cs) :
                              hit(i) /\ \A j \in 1..(i - 1) : ~hit(j)
                  IN  IF IsTag(cs[i]) THEN Str(NA)       \* Tag.strip is None: TypeError
                      ELSE Str(Strip(cs[i].str))
             ELSE PyNone                                 \* the loop ends, no return

(***************************************************************************)
(* Rules of site A that take the whole page.  A page (soup) is             *)
(* [h1 |-> the <h1> tags, body |-> the elements of the page in order]; the *)
(* <p> tags of the page are the elements of body named "p".                *)
(***************************************************************************)
Soup(h, b) == [h1 |-> h, body |-> b]

List(xs) == [kind |-> "list", val |-> xs]

\* positions in body of the <p> tags: soup.find_all('p')
RECURSIVE PPositions(_, _)
PPositions(body, k) ==
    IF k > Len(body) THEN <<>>
    ELSE (IF body[k].name = "p" THEN <<k>> ELSE <<>>) \o PPositions(body, k + 1)

acptags(soup) == [i \in 1..Len(PPositions(soup.body, 1)) |->
                    soup.body[PPositions(soup.body, 1)[i]]]

get_acname(soup) ==
    IF soup.h1 = <<>> THEN Str(NA)                            \* h1s[0]: IndexError
    ELSE LET parts == Contents(soup.h1[1])
         IN  IF \E k \in 1..Len(parts) : IsTag(parts[k])
             THEN Str(NA)                                      \* join of a Tag: TypeError
             ELSE Str(ConcatStr(parts))

Defunct == <<"d", "e", "f", "u", "n", "c", "t">>
Active == <<"a", "c", "t", "i", "v", "e">>

get_acstatus(soup) ==
    IF Contains(get_acname(soup).val, Defunct) THEN Str(Defunct) ELSE Str(Active)

get_coredata(soup) ==
    LET ps == acptags(soup)
        found(i) == TagsIn(ps[i].kids, "strong") # <<>>
    IN  IF Len(ps) >= 1 /\ found(1) THEN CorePair(0, ps[1])
        ELSE IF Len(ps) >= 2 /\ found(2) THEN CorePair(1, ps[2])
        ELSE CoreError

get_acabout(cd, soup) ==
    IF cd.err THEN Str(NA)
    ELSE LET ps == acptags(soup)
         IN  IF cd.index + 2 > Len(ps) THEN Str(NA)            \* IndexError
             ELSE Str(Strip(NodeText(ps[cd.index + 2])))

ResourcesLabel == <<"R", "e", "s", "o", "u", "r", "c", "e", "s", ":">>
SpecsLabel == <<"S", "p", "e", "c", "i", "f", "i", "c", "a", "t", "i", "o", "n", "s", ":">>

\* "label in tag" for one element of iterating a <p> tag
LabelIn(label, tag) ==
    IF ~IsTag(tag) THEN Contains(tag.str, label)
    ELSE \E k \in 1..Len(Contents(tag)) : Contents(tag)[k].str = label

\* STEP 1 of get_acresources / get_acspecs: the index left in res_ind / specs_ind
\* by the loop over the <p> tags (the last one that matches), -1 when never bound
LabelIndex(soup, label) ==
    LET ps == acptags(soup)
        match(i) == \E k \in 1..Len(Contents(ps[i])) : LabelIn(label, Contents(ps[i])[k])
    IN  IF \E i \in 1..Len(ps) : match(i)
        THEN (CHOOSE i \in 1..Len(ps) : match(i) /\ \A j \in (i + 1)..Len(ps) : ~match(j)) - 1
        ELSE -1

\* the <ul> elements among the next_siblings of the <p> tag with index i
ListsAfter(soup, i) ==
    LET from == PPositions(soup.body, 1)[i + 1]
    IN  SelectSeq(SubSeq(soup.body, from + 1, Len(soup.body)), LAMBDA e : e.name = "ul")

\* the elements of iterating every <li> of every list
RECURSIVE ItemElements(_)
ItemElements(items) ==
    IF items = <<>> THEN <<>>
    ELSE Contents(Head(items)) \o ItemElements(Tail(items))

RECURSIVE ListElements(_)
ListElements(uls) ==
    IF uls = <<>> THEN <<>>
    ELSE ItemElements(TagsIn(Head(uls).kids, "li")) \o ListElements(Tail(uls))

get_acresources(soup) ==
    LET res_ind == LabelIndex(soup, ResourcesLabel)
    IN  IF res_ind = -1 THEN List(<<>>)                        \* unbound res_ind, caught
        ELSE IF res_ind = 0 THEN Raise("UnboundLocalError")    \* 'if res_ind:' is false
        ELSE LET els == SelectSeq(ListElements(ListsAfter(soup, res_ind)),
                                  LAMBDA e : e.name = "a")
             IN  List([k \in 1..Len(els) |-> GetHref(els[k])])

CleanSpec(e) ==
    Str(Replace(Replace(Strip(NodeText(e)), <<"NBSP">>, <<" ">>), <<"CR", "LF">>, <<" ">>))

get_acspecs(soup) ==
    LET specs_ind == LabelIndex(soup, SpecsLabel)
    IN  IF specs_ind = -1 THEN List(<<>>)                      \* unbound specs_ind, caught
        ELSE IF specs_ind = 0 THEN List(<<>>)                  \* 'if specs_ind:' is false
        ELSE LET els == ListElements(ListsAfter(soup, specs_ind))
             IN  List([k \in 1..Len(els) |-> CleanSpec(els[k])])

(***************************************************************************)
(* The pages the modelled site serves.                                     *)
(***************************************************************************)
CoreGood ==
    TagNode("p", << TagLeaf("strong", <<"M", ":">>), TextNode(<<" ", "O", "NBSP">>),
                    TagLeaf("br", <<>>), TextNode(<<"1", " ", "S", ",", "T">>),
                    Anchor(<<"u">>, <<"w">>) >>)

AboutP == TagNode("p", << TextNode(<<" ", "b", " ">>) >>)

ResourcesP == TagNode("p", << TextNode(ResourcesLabel) >>)

ResourcesUl == TagNode("ul", << TagNode("li", << Anchor(<<"r">>, <<"x">>) >>) >>)

\* a complete page: every rule finds its field
PageGood ==
    Soup(<< TagLeaf("h1", <<"A">>) >>, << CoreGood, AboutP, ResourcesP, ResourcesUl >>)

\* the bold label sits inside a <span>: get_acoem and get_acaddress return None
PageNested ==
    Soup(<< TagLeaf("h1", <<"B">>) >>,
         << TagNode("p", << TagNode("span", << TagLeaf("strong", <<"M">>) >>),
                            TextNode(<<"O">>) >>),
            AboutP >>)

\* the core-data anchor has no href: get_acextlink raises
PageNoHref ==
    Soup(<< TagLeaf("h1", <<"C">>) >>,
         << TagNode("p", << TagLeaf("strong", <<"M", ":">>), TextNode(<<"O">>),
                            AnchorNoHref(<<"w">>) >>),
            AboutP >>)

\* no bold label in the first two <p> tags: every core-data field is 'N/A'
PageNoCore ==
    Soup(<< TagLeaf("h1", <<"A">>) >>, << AboutP >>)

Fetched(soup) == [ok |-> TRUE, soup |-> soup]
FetchError == [ok |-> FALSE, soup |-> Soup(<<>>, <<>>)]

(***************************************************************************)
(* scrape_appendnew: the merge of site A.                                   *)
(***************************************************************************)
Min(a, b) == IF a < b THEN a ELSE b
Max(a, b) == IF a > b THEN a ELSE b

\* Python's slice bounds for a sequence of length n
SliceBound(n, i) == IF i < 0 THEN Max(n + i, 0) ELSE Min(i, n)

SliceLo(n, start) == SliceBound(n, start)

SliceLen(n, start, stop) == Max(SliceBound(n, stop) - SliceBound(n, start), 0)

\* the position in the directory (from 0) of element i of links[start_ind : stop_ind]
PosOf(n, start, i) == SliceLo(n, start) + i

\* the wrong column is listed: list(results_df['category'])
LinkColumnWrongColumn(df) == [k \in 1..Len(df) |-> df[k].category]

\* list(results_df['link'])
LinkColumn(df) == [k \in 1..Len(df) |-> df[k].link]

\* the membership test is left out: every link is scraped
IsNewAlways(link, df) == TRUE

\* "link not in list(results_df['link'])"
IsNew(link, df) == \A k \in 1..Len(LinkColumn(df)) : LinkColumn(df)[k] # link

\* the label looked up in categories for element i of the slice
\* the slice offset is forgotten
CategoryLabelNoOffset(start, i) == i

CategoryLabel(start, i) == start + i

\* ac_data as the inner try block builds it: ok = FALSE when a statement raises
AssembleRow(link, dir, start, i, soup) ==
    LET label == CategoryLabel(start, i)
        cd == get_coredata(soup)
        resources == get_acresources(soup)
        website == get_acextlink(cd)
    IN  IF label \notin 0..(Len(dir) - 1) \/ resources.kind = "raise" \/ website.kind = "raise"
        THEN [ok |-> FALSE, row |-> <<>>]
        ELSE [ok |-> TRUE,
              row |-> [link |-> link,
                       category |-> dir[label + 1].category,
                       name |-> get_acname(soup),
                       status |-> get_acstatus(soup),
                       specs |-> get_acspecs(soup),
                       resources |-> resources,
                       oem |-> get_acoem(cd),
                       model |-> get_acmodel(cd),
                       aircraft_website |-> website,
                       address |-> get_acaddress(cd),
                       about |-> get_acabout(cd, soup)]]

\* the append is reached after a failed fetch too: the empty ac_data becomes a row
OnRequestsErrorAppends(df, link) ==
    Append(df, [link |-> "nan", category |-> "nan", name |-> PyNone, status |-> PyNone,
                specs |-> PyNone, resources |-> PyNone, oem |-> PyNone, model |-> PyNone,
                aircraft_website |-> PyNone, address |-> PyNone, about |-> PyNone])

\* the table after the 'requests() error' branch: nothing is appended

OnRequestsError(df, link) == df

\* one pass of the loop body for element i of the slice; got is what get_bs4(link)
\* yields (it is called only for a new link)
LoopBody(df, dir, start, i, got) ==
    LET link == dir[PosOf(Len(dir), start, i) + 1].links
        asm == AssembleRow(link, dir, start, i, got.soup)
    IN  IF ~IsNew(link, df) THEN df
        ELSE IF ~got.ok THEN OnRequestsError(df, link)
        ELSE IF ~asm.ok THEN df
        ELSE Append(df, asm.row)

\* the rest of the loop from element i on, when fetching link l yields st[l]
RECURSIVE Loop(_, _, _, _, _, _)
Loop(df, dir, start, stop, i, st) ==
    IF i >= SliceLen(Len(dir), start, stop) THEN df
    ELSE Loop(LoopBody(df, dir, start, i, st[dir[PosOf(Len(dir), start, i) + 1].links]),
              dir, start, stop, i + 1, st)

\* the table a whole call returns when fetching link l yields st[l]
scrape_appendnew(start, stop, dir, df, st) == Loop(df, dir, start, stop, 0, st)

Links == {"l1", "l2"}
Categories == {"c1", "c2"}
Outcomes == {FetchError, Fetched(PageGood), Fetched(PageNoHref)}

Dirs == UNION { [1..n -> [links : Links, category : Categories]] : n \in 0..MaxDir }
StartInds == -1..(MaxDir - 1)
StopInds == -1..MaxDir

\* an entry of the log: got is what the fetch yielded (only read for "fetch")
Event(e, i, l, o) == [ev |-> e, ind |-> i, link |-> l, got |-> o]

MergeIdle ==
    /\ pc = "idle"
    /\ inputs_df = <<>>
    /\ start_ind = 0
    /\ stop_ind = 0
    /\ results_df = <<>>
    /\ ind = 0
    /\ log = <<>>

MergeInit ==
    /\ table = <<>>
    /\ MergeIdle

\* results = scrape_appendnew(start, stop, dir, table): the call begins
Call(start, stop, dir) ==
    /\ pc = "idle"
    /\ pc' = "loop"
    /\ inputs_df' = dir
    /\ start_ind' = start
    /\ stop_ind' = stop
    /\ results_df' = table
    /\ ind' = 0
    /\ log' = <<>>
    /\ UNCHANGED table

InLoop == pc = "loop" /\ ind < SliceLen(Len(inputs_df), start_ind, stop_ind)

CurLink == inputs_df[PosOf(Len(inputs_df), start_ind, ind) + 1].links

CurRow(got) == AssembleRow(CurLink, inputs_df, start_ind, ind, got.soup)

Advance(got, events) ==
    /\ results_df' = LoopBody(results_df, inputs_df, start_ind, ind, got)
    /\ ind' = ind + 1
    /\ log' = log \o events
    /\ UNCHANGED <<table, pc, inputs_df, start_ind, stop_ind>>

\* the link is already in the table: 'else: None' (no fetch, no sleep)
StepSkip ==
    /\ InLoop
    /\ ~IsNew(CurLink, results_df)
    /\ Advance(FetchError, <<>>)

\* the sleep is skipped when get_bs4 raises
StepRequestsErrorNoSleep ==
    /\ InLoop
    /\ IsNew(CurLink, results_df)
    /\ Advance(FetchError, << Event("fetch", ind, CurLink, FetchError),
                              Event("requests_error", ind, CurLink, FetchError) >>)

\* get_bs4 raises: 'requests() error', then the sleep
StepRequestsError ==
    /\ InLoop
    /\ IsNew(CurLink, results_df)
    /\ Advance(FetchError, << Event("fetch", ind, CurLink, FetchError),
                              Event("requests_error", ind, CurLink, FetchError),
                              Event("sleep", ind, CurLink, FetchError) >>)

\* the page is fetched, a statement of the inner try raises: 'append error', the sleep
StepAppendError ==
    /\ InLoop
    /\ IsNew(CurLink, results_df)
    /\ \E got \in Outcomes :
          /\ got.ok
          /\ ~CurRow(got).ok
          /\ Advance(got, << Event("fetch", ind, CurLink, got),
                             Event("append_error", ind, CurLink, FetchError),
                             Event("sleep", ind, CurLink, FetchError) >>)

\* the page is fetched, the row is assembled and appended, then the sleep
StepAppend ==
    /\ InLoop
    /\ IsNew(CurLink, results_df)
    /\ \E got \in Outcomes :
          /\ got.ok
          /\ CurRow(got).ok
          /\ Advance(got, << Event("fetch", ind, CurLink, got),
                             Event("append", ind, CurLink, FetchError),
                             Event("sleep", ind, CurLink, FetchError) >>)

Done == pc = "loop" /\ ind >= SliceLen(Len(inputs_df), start_ind, stop_ind)

\* 'return results_df': the caller keeps the returned table
Return ==
    /\ Done
    /\ table' = results_df
    /\ pc' = "idle"
    /\ inputs_df' = <<>>
    /\ start_ind' = 0
    /\ stop_ind' = 0
    /\ results_df' = <<>>
    /\ ind' = 0
    /\ log' = <<>>

(***************************************************************************)
(* update_na: the backfill of site A.                                      *)
(***************************************************************************)
\* func_dict: every rule is run when the dictionary is built
func_dict(soup) ==
    LET cd == get_coredata(soup)
    IN  [specs |-> get_acspecs(soup), resources |-> get_acresources(soup),
         oem |-> get_acoem(cd), model |-> get_acmodel(cd),
         aircraft_website |-> get_acextlink(cd), address |-> get_acaddress(cd),
         about |-> get_acabout(cd, soup)]

FuncCols == {"specs", "resources", "oem", "model", "aircraft_website", "address", "about"}

\* df.update(naupdate), naupdate being the one-row frame of the columns cols for link:
\* a cell is overwritten where naupdate holds a value that is not NA
DfUpdate(df, link, cols, fd) ==
    [k \in 1..Len(df) |->
        IF df[k].link # link THEN df[k]
        ELSE [c \in DOMAIN df[k] |->
                 IF c \in cols /\ fd[c].kind # "None" THEN fd[c] ELSE df[k][c]]]

NoCall == [status |-> "none", cols |-> {}, link |-> "", before |-> <<>>,
           fresh |-> [c \in FuncCols |-> Pending]]

BackfillIdle ==
    /\ df_index = "None"
    /\ una = NoCall
    /\ n_updates = 0

\* update_na(cols_list, aircraft_link, df), got being what get_bs4(aircraft_link) yields
UpdateNA(cols, link, got) ==
    /\ pc = "idle"
    /\ n_updates < MaxUpdates
    /\ n_updates' = n_updates + 1
    /\ df_index' = "link"                                  \* set_index('link', inplace = True)
    /\ LET fd == func_dict(got.soup)
           raised ==
              \/ ~got.ok                                   \* get_bs4 raises
              \/ \E c \in FuncCols : fd[c].kind = "raise"  \* a rule raises
              \/ ~(cols \subseteq FuncCols)                \* func_dict[col]: KeyError
       IN  /\ table' = IF raised THEN table ELSE DfUpdate(table, link, cols, fd)
           /\ una' = [status |-> IF raised THEN "raised" ELSE "returned",
                      cols |-> cols, link |-> link, before |-> table,
                      fresh |-> IF got.ok THEN fd ELSE [c \in FuncCols |-> Pending]]
    /\ UNCHANGED <<pc, inputs_df, start_ind, stop_ind, results_df, ind, log>>

\* the row scrape_appendnew appends for link l of category c when it fetches soup
RowOf(l, c, soup) == AssembleRow(l, <<[links |-> l, category |-> c]>>, 0, 0, soup).row

BackfillPages == {PageGood, PageNested, PageNoCore}

\* the tables of one or two rows that merges can have built
BackfillTables ==
    { <<RowOf(l, "c1", p)>> : l \in Links, p \in BackfillPages } \cup
    { t \in { <<RowOf(l, "c1", p), RowOf(m, "c1", q)>> :
                 l \in Links, m \in Links, p \in BackfillPages, q \in BackfillPages } :
         t[1].link # t[2].link }

\* the column lists handed to update_na
ColsLists == { cs \in SUBSET (FuncCols \cup {"name"}) : Cardinality(cs) <= MaxCols }

(***************************************************************************)
(* check_updates (the same function in both files).                        *)
(***************************************************************************)
Digit(d) == <<"0", "1", "2", "3", "4", "5", "6", "7", "8", "9">>[d + 1]

\* "{}".format(n) for a natural number n
RECURSIVE Format(_)
Format(n) == IF n < 10 THEN <<Digit(n)>> ELSE Format(n \div 10) \o <<Digit(n % 10)>>

NotUpToDate(diff) == <<"NOT up to date. ">> \o Format(diff) \o <<" new aircraft exist">>
UpToDate == <<"Your df is up to date. No update needed.">>

\* the comparison is written >= : equal lengths report 0 new aircraft
check_updates_GE(cur, df) ==
    IF Len(cur) >= Len(df) THEN Str(NotUpToDate(Len(cur) - Len(df))) ELSE Str(UpToDate)

check_updates(cur, df) ==
    IF Len(cur) > Len(df) THEN Str(NotUpToDate(Len(cur) - Len(df))) ELSE Str(UpToDate)

\* tables of up to MaxLen rows (check_updates reads their length only)
LinkTables == UNION { [1..n -> [link : Links]] : n \in 0..MaxLen }

CheckIdle ==
    /\ current = <<>>
    /\ df_tocheck = <<>>
    /\ response = Pending

CallCheckUpdates ==
    /\ response = Pending
    /\ response' = check_updates(current, df_tocheck)
    /\ UNCHANGED <<current, df_tocheck>>

(***************************************************************************)
(* get_devstage.  A document is the sequence of its <i> tags; a tag is     *)
(* its marker, whether it declares a color, and its fill percentage.       *)
(***************************************************************************)
ITag(m, c, f) == [marker |-> m, color |-> c, fill |-> f]

\* tag.prettify(): the text of the tag, attribute by attribute
prettify(tag) ==
    <<"<", "i">>
       \o (IF tag.marker THEN <<" ", "data-x-icon">> ELSE <<>>)
       \o (IF tag.color THEN <<" ", "color">> ELSE <<>>)
       \o <<" ">> \o tag.fill \o <<">">>

stages_dict ==
    <<"preliminary design", "prototype build", "flight testing", "certification",
      "commercially operating">>

NumStages == Len(stages_dict)

Unbound == [kind |-> "unbound"]
Bound(doc) == [kind |-> "bound", doc |-> doc]

\* positions (from 0) in dev_stages of the tags that pass the test of the second loop
StageInds(dev_stages) ==
    { i \in 0..(Len(dev_stages) - 1) :
         /\ Contains(prettify(dev_stages[i + 1]), <<"color">>)
         /\ ~Contains(prettify(dev_stages[i + 1]), <<"0", "%">>) }

\* sp is the parameter, which the body never reads; glob is the global acsoup
get_devstage(sp, glob) ==
    IF glob.kind = "unbound" THEN Raise("NameError")
    ELSE LET itags == glob.doc
             dev_stages == SelectSeq(itags, LAMBDA tag : Contains(prettify(tag), <<"data-x-icon">>))
             found == StageInds(dev_stages)
             stage_ind == CHOOSE i \in found : \A j \in found : i <= j   \* break at the first
         IN  IF found = {} THEN PyNone                        \* stage_ind unbound: caught
             ELSE IF stage_ind >= NumStages THEN PyNone       \* KeyError: caught
             ELSE Str(stages_dict[stage_ind + 1])

Fills == {<<"0", "%">>, <<"5", "5", "%">>, <<"1", "0", "0", "%">>}
ITags == {ITag(TRUE, c, f) : c \in BOOLEAN, f \in Fills} \cup {ITag(FALSE, TRUE, <<"5", "5", "%">>)}
Soups == UNION { [1..n -> ITags] : n \in 0..MaxTags }

DevstageIdle ==
    /\ acsoup = Unbound
    /\ itags_soup = <<>>
    /\ dev_stage = Pending

CallDevstage ==
    /\ dev_stage = Pending
    /\ dev_stage' = get_devstage(itags_soup, acsoup)
    /\ UNCHANGED <<acsoup, itags_soup>>

(***************************************************************************)
(* assign_autonlevel.                                                      *)
(***************************************************************************)
UpperCase ==
    <<"A", "B", "C", "D", "E", "F", "G", "H", "I", "J", "K", "L", "M",
      "N", "O", "P", "Q", "R", "S", "T", "U", "V", "W", "X", "Y", "Z">>
LowerCase ==
    <<"a", "b", "c", "d", "e", "f", "g", "h", "i", "j", "k", "l", "m",
      "n", "o", "p", "q", "r", "s", "t", "u", "v", "w", "x", "y", "z">>

LowerChar(c) ==
    IF \E i \in 1..Len(UpperCase) : UpperCase[i] = c
    THEN LowerCase[CHOOSE i \in 1..Len(UpperCase) : UpperCase[i] = c]
    ELSE c

lower(s) == [k \in 1..Len(s) |-> LowerChar(s[k])]

\* str(x) of a string, of None, of a float NaN and of a small natural number
PyStr(v) ==
    CASE v.kind = "str" -> v.val
      [] v.kind = "None" -> <<"N", "o", "n", "e">>
      [] v.kind = "nan" -> <<"n", "a", "n">>
      [] v.kind = "int" -> Format(v.val)

auto_cats ==
    <<"semi autonomous", "autonomous", "piloted semi autonomous", "piloted", "undisclosed">>

semi == <<"s", "e", "m", "i">>
pilot == <<"p", "i", "l", "o", "t">>
autonomous == <<"a", "u", "t", "o", "n", "o", "m", "o", "u", "s">>
piloted == <<"p", "i", "l", "o", "t", "e", "d">>

\* the fourth test is made a substring test like the other three
assign_autonlevel_PilotedSubstring(v) ==
    LET s == lower(PyStr(v))
    IN  IF Contains(s, semi) /\ ~Contains(s, pilot) THEN Str(auto_cats[1])
        ELSE IF Contains(s, autonomous) /\ ~Contains(s, semi) THEN Str(auto_cats[2])
        ELSE IF Contains(s, pilot) /\ Contains(s, semi) THEN Str(auto_cats[3])
        ELSE IF Contains(s, piloted) THEN Str(auto_cats[4])
        ELSE Str(auto_cats[5])

assign_autonlevel(v) ==
    LET s == lower(PyStr(v))
    IN  IF Contains(s, semi) /\ ~Contains(s, pilot) THEN Str(auto_cats[1])
        ELSE IF Contains(s, autonomous) /\ ~Contains(s, semi) THEN Str(auto_cats[2])
        ELSE IF Contains(s, pilot) /\ Contains(s, semi) THEN Str(auto_cats[3])
        ELSE IF s = piloted THEN Str(auto_cats[4])
        ELSE Str(auto_cats[5])

Words ==
    { <<"P", "i", "l", "o", "t", "e", "d">>,
      <<"P", "I", "L", "O", "T", "E", "D">>,
      <<",", " ">>,
      <<"s", "e", "m", "i", "-", "a", "u", "t", "o", "n", "o", "m", "o", "u", "s">>,
      <<"S", "e", "m", "i", "-", "A", "u", "t", "o", "n", "o", "m", "o", "u", "s">>,
      <<"A", "u", "t", "o", "n", "o", "m", "o", "u", "s">>,
      <<"S", "E", "M", "I">>,
      <<"f", "o", "o", "b", "a", "r">> }

RECURSIVE Join(_)
Join(ws) == IF ws = <<>> THEN <<>> ELSE Head(ws) \o Join(Tail(ws))

Texts == { Join(ws) : ws \in UNION { [1..n -> Words] : n \in 0..MaxWords } }
AutonInputs ==
    {Str(t) : t \in Texts} \cup {PyNone, [kind |-> "nan"]} \cup {[kind |-> "int", val |-> n] : n \in {0, 12}}

AutonIdle ==
    /\ autonomy = PyNone
    /\ auton_level = Pending

CallAutonlevel ==
    /\ auton_level = Pending
    /\ auton_level' = assign_autonlevel(autonomy)
    /\ UNCHANGED autonomy

(***************************************************************************)
(* drop_nullcols.  A table is the sequence of its columns, a column its    *)
(* name and, row by row, whether the cell is missing.                      *)
(***************************************************************************)
Column(n, nas) == [name |-> n, isna |-> nas]

\* sp is the parameter df, which the body never reads; glob is the global cdf.
\* The result is the returned value and the global after the call.
drop_nullcols(sp, perc, glob) ==
    IF glob.kind = "unbound" THEN [ret |-> Raise("NameError"), cdf |-> glob]
    ELSE LET t == glob.doc
             rows == IF t = <<>> THEN 0 ELSE Len(t[1].isna)
             nulls(c) == Cardinality({k \in 1..Len(c.isna) : c.isna[k]})
             \* len(cdf[cdf[col].isna()]) / len(cdf) >= nullperc
             isnull(c) == nulls(c) * perc.den >= perc.num * rows
         IN  IF t # <<>> /\ rows = 0 THEN [ret |-> Raise("ZeroDivisionError"), cdf |-> glob]
             ELSE [ret |-> List([k \in 1..Len(SelectSeq(t, isnull)) |-> SelectSeq(t, isnull)[k].name]),
                   cdf |-> Bound(SelectSeq(t, LAMBDA c : ~isnull(c)))]

\* tables of the two columns X and Y with 0..MaxRows rows
NullTables ==
    UNION { { <<Column("X", x), Column("Y", y)>> : x, y \in [1..n -> BOOLEAN] } : n \in 0..MaxRows }
Thresholds == {[num |-> 3, den |-> 4], [num |-> 1, den |-> 2]}

DropIdle ==
    /\ cdf = Unbound
    /\ drop_df = <<>>
    /\ nullperc = [num |-> 3, den |-> 4]
    /\ null_cols = Pending

CallDropNullcols ==
    /\ null_cols = Pending
    /\ null_cols' = drop_nullcols(drop_df, nullperc, cdf).ret
    /\ cdf' = drop_nullcols(drop_df, nullperc, cdf).cdf
    /\ UNCHANGED <<drop_df, nullperc>>

(***************************************************************************)
(* get_tu_acdata: the merge of site B.  A page of site B is its <p> tags   *)
(* (text, the text of its <strong> child or <<>>, the sibling after it),   *)
(* its <ul> lists (items: has an anchor, the anchor's href) and its <i>    *)
(* tags.                                                                   *)
(***************************************************************************)
TuPage(ps, us, is) == [ptags |-> ps, uls |-> us, itags |-> is]

\* the parameter is never read; glob is the global acsoup
get_summary(sp, glob) ==
    IF glob.kind = "unbound" THEN Raise("NameError")
    ELSE IF Len(glob.doc.ptags) < 3 THEN Raise("IndexError")
    ELSE Str(Strip(glob.doc.ptags[3].text))

RECURSIVE RefLinks(_, _)
RefLinks(lis, links) ==
    IF lis = <<>> THEN links
    ELSE IF ~Head(lis).a THEN RefLinks(Tail(lis), links)
    ELSE IF Head(lis).href.kind # "str" THEN links               \* TypeError: caught, return links
    ELSE IF ~Contains(Head(lis).href.val, <<"transportup">>)
         THEN RefLinks(Tail(lis), Append(links, Head(lis).href.val))
    ELSE RefLinks(Tail(lis), links)

\* the parameter is never read; glob is the global acsoup
get_references(sp, glob) ==
    IF glob.kind = "unbound" THEN Raise("NameError")
    ELSE IF glob.doc.uls = <<>> THEN Raise("IndexError")
    ELSE List(RefLinks(glob.doc.uls[Len(glob.doc.uls)], <<>>))

\* the keys get_details adds to the row: the <strong> texts, stripped, without ":"
get_details(sp) ==
    LET labelled == SelectSeq(sp.ptags, LAMBDA p : p.strong # <<>>)
    IN  { [key |-> Replace(Strip(labelled[k].strong), <<":">>, <<>>), val |-> labelled[k].val] :
             k \in 1..Len(labelled) }

\* the body of the try block for element i (from 0) of the directory
TuRow(dir, i, sp, glob) ==
    LET summary == get_summary(sp, glob)
        stage == get_devstage(sp.itags, glob)
        references == get_references(sp, glob)
    IN  IF summary.kind = "raise" \/ stage.kind = "raise" \/ references.kind = "raise"
        THEN [ok |-> FALSE, row |-> <<>>]
        ELSE [ok |-> TRUE,
              row |-> [category |-> dir[i + 1].category, ac_name |-> dir[i + 1].ac_name,
                       link |-> dir[i + 1].link, summary |-> summary, dev_stage |-> stage,
                       references |-> references, details |-> get_details(sp)]]

TuGood ==
    TuPage(<<[text |-> <<"a">>, strong |-> <<>>, val |-> <<>>],
             [text |-> <<"R", ":", "9">>, strong |-> <<"R", ":">>, val |-> <<"9">>],
             [text |-> <<" ", "s", " ">>, strong |-> <<>>, val |-> <<>>]>>,
           <<<<[a |-> TRUE, href |-> Str(<<"ref">>)], [a |-> FALSE, href |-> PyNone]>>>>,
           <<ITag(TRUE, TRUE, <<"5", "5", "%">>)>>)
TuOutcomes == {[ok |-> FALSE, soup |-> TuPage(<<>>, <<>>, <<>>)], [ok |-> TRUE, soup |-> TuGood]}

\* the for loop from element i (from 0) on; the result is the local results_df
RECURSIVE TuLoop(_, _, _, _, _)
TuLoop(dir, df, i, st, glob) ==
    IF i >= Len(dir) THEN df
    ELSE LET link == dir[i + 1].link
             known == \E k \in 1..Len(df) : df[k].link = link
             got == st[link]
             made == TuRow(dir, i, got.soup, glob)
         IN  IF known THEN TuLoop(dir, df, i + 1, st, glob)
             ELSE IF got.ok /\ made.ok THEN TuLoop(dir, Append(df, made.row), i + 1, st, glob)
             ELSE TuLoop(dir, df, i + 1, st, glob)                \* except: print the error

\* no return statement: the caller gets None and its table is not touched
get_tu_acdata(dir, df, st, glob) == [ret |-> PyNone, local |-> TuLoop(dir, df, 0, st, glob)]

TuDirs ==
    UNION { [1..n -> [link : Links, category : Categories, ac_name : {"n1"}]] : n \in 0..MaxDir }

TuIdle ==
    /\ directory_df = <<>>
    /\ tu_table = <<>>
    /\ tu_fetch = [l \in Links |-> [ok |-> FALSE, soup |-> TuPage(<<>>, <<>>, <<>>)]]
    /\ tu_local = <<>>
    /\ tu_ret = Pending

CallTuAcdata ==
    /\ tu_ret = Pending
    /\ \E st \in [Links -> TuOutcomes] :
          /\ tu_fetch' = st
          /\ tu_ret' = get_tu_acdata(directory_df, tu_table, st, acsoup).ret
          /\ tu_local' = get_tu_acdata(directory_df, tu_table, st, acsoup).local
    /\ UNCHANGED <<directory_df, tu_table>>

(***************************************************************************)
(* SpecPage: the rules that take the whole document, applied to one page.  *)
(***************************************************************************)
SpecsP == TagNode("p", << TextNode(SpecsLabel) >>)

\* the <h1> tags a page may have: none, a name, a name marked defunct, a name in a <span>
Heads ==
    { <<>>,
      << TagLeaf("h1", <<"A">>) >>,
      << TagLeaf("h1", <<"A", " ", "(", "d", "e", "f", "u", "n", "c", "t", ")">>) >>,
      << TagNode("h1", << TagLeaf("span", <<"A">>) >>) >> }

Pages ==
    { Soup(h, b) : h \in Heads,
                   b \in UNION { [1..n -> {AboutP, ResourcesP, SpecsP, ResourcesUl}] : n \in 0..MaxBody } }

PageRules == {"name", "status", "resources", "specs"}

PageRule(r, soup) ==
    CASE r = "name" -> get_acname(soup)
      [] r = "status" -> get_acstatus(soup)
      [] r = "resources" -> get_acresources(soup)
      [] r = "specs" -> get_acspecs(soup)

PageIdle ==
    /\ page = Soup(<<>>, <<>>)
    /\ page_out = [r \in PageRules |-> Pending]

CallPageRule(r) ==
    /\ page_out[r] = Pending
    /\ page_out' = [page_out EXCEPT ![r] = PageRule(r, page)]
    /\ UNCHANGED page

(***************************************************************************)
(* get_aclinks.  The directory page is the sequence of its <ol> tags; the  *)
(* returned dict is the sequence of its (key, value) pairs in insertion    *)
(* order.                                                                  *)
(***************************************************************************)
Dict(ps) == [kind |-> "dict", val |-> ps]

\* li.find('a').get('href'), or the token of the except branch
ac_link(li, i) ==
    IF TagsIn(li.kids, "a") = <<>>                              \* None.get: AttributeError
    THEN Str(<<"error at index: ">> \o Format(i))
    ELSE GetHref(TagsIn(li.kids, "a")[1])

\* the (ind, li) pairs of the two nested loops, in order
RECURSIVE ListItems(_, _)
ListItems(olists, i) ==
    IF i >= Len(olists) THEN <<>>
    ELSE LET lis == TagsIn(olists[i + 1].kids, "li")
         IN  [k \in 1..Len(lis) |-> [ind |-> i, li |-> lis[k]]] \o ListItems(olists, i + 1)

\* every occurrence assigns: the last category of a link wins
RECURSIVE AcLoopLastWins(_, _, _)
AcLoopLastWins(items, d, cats) ==
    IF items = <<>> THEN Dict(d)
    ELSE LET key == ac_link(Head(items).li, Head(items).ind)
             known == \E k \in 1..Len(d) : d[k].key = key
             val == cats[Head(items).ind + 1]
         IN  IF Head(items).ind >= Len(cats) THEN Raise("IndexError")
             ELSE IF known
             THEN AcLoopLastWins(Tail(items),
                                 [k \in 1..Len(d) |-> IF d[k].key = key
                                                      THEN [key |-> key, val |-> val] ELSE d[k]],
                                 cats)
             ELSE AcLoopLastWins(Tail(items), Append(d, [key |-> key, val |-> val]), cats)

RECURSIVE AcLoop(_, _, _)
AcLoop(items, d, cats) ==
    IF items = <<>> THEN Dict(d)
    ELSE LET key == ac_link(Head(items).li, Head(items).ind)
             known == \E k \in 1..Len(d) : d[k].key = key
         IN  IF known THEN AcLoop(Tail(items), d, cats)
             ELSE IF Head(items).ind >= Len(cats) THEN Raise("IndexError")   \* categories[ind]
             ELSE AcLoop(Tail(items),
                         Append(d, [key |-> key, val |-> cats[Head(items).ind + 1]]), cats)

get_aclinks_LastWins(olists, cats) == AcLoopLastWins(ListItems(olists, 0), <<>>, cats)

get_aclinks(olists, cats) == AcLoop(ListItems(olists, 0), <<>>, cats)

\* list items: a link, another link, no anchor, an anchor without href
LiSamples ==
    { TagNode("li", << Anchor(<<"l1">>, <<"x">>) >>), TagNode("li", << Anchor(<<"l2">>, <<"y">>) >>),
      TagNode("li", << TextNode(<<"z">>) >>), TagNode("li", << AnchorNoHref(<<"w">>) >>) }
OlSamples == { TagNode("ol", ks) : ks \in UNION { [1..n -> LiSamples] : n \in 0..2 } }
DirSoups == UNION { [1..n -> OlSamples] : n \in 0..MaxLists }
\* the labels of the first n categories, n up to the number of lists
CategoryLists == { [i \in 1..n |-> <<"c">> \o Format(i)] : n \in 0..MaxLists }

LinksIdle ==
    /\ dir_soup = <<>>
    /\ categories = <<>>
    /\ ac_dict = Pending

CallAclinks ==
    /\ ac_dict = Pending
    /\ ac_dict' = get_aclinks(dir_soup, categories)
    /\ UNCHANGED <<dir_soup, categories>>

(***************************************************************************)
(* SpecCore: the core-data rules applied to one located node.              *)
(***************************************************************************)
\* The children a core-data node is built from.
ChildSamples ==
    { TagLeaf("strong", <<"M", ":">>),                         \* <strong>M:</strong>
      TagLeaf("br", <<>>),                                     \* <br/>
      Anchor(<<"u">>, <<"w">>),                                \* <a href="u">w</a>
      AnchorNoHref(<<"w">>),                                   \* <a>w</a>
      TagNode("span", <<TagLeaf("strong", <<"M">>)>>),         \* <span><strong>M</strong></span>
      TagNode("span", <<TextNode(<<"T", ",", "U", "S", "A">>)>>),
      TextNode(<<" ", "O", "NBSP">>),                          \* " O\xa0"
      TextNode(<<"1", " ", "S", ",", "T">>),                   \* "1 S,T"
      TextNode(<<"U", "S", "A">>) }

CoreNodes == UNION { [1..n -> ChildSamples] : n \in 0..MaxKids }

CoreRules == {"model", "oem", "aircraft_website", "address"}

CoreIdle ==
    /\ core_data = CoreError
    /\ core_out = [r \in CoreRules |-> Pending]

CoreInit ==
    /\ core_data \in {CoreError} \cup
                     { CorePair(i, TagNode("p", ks)) : i \in 0..1, ks \in CoreNodes }
    /\ core_out = [r \in CoreRules |-> Pending]

CallModel ==
    /\ core_out["model"] = Pending
    /\ core_out' = [core_out EXCEPT !["model"] = get_acmodel(core_data)]
    /\ UNCHANGED core_data

CallOem ==
    /\ core_out["oem"] = Pending
    /\ core_out' = [core_out EXCEPT !["oem"] = get_acoem(core_data)]
    /\ UNCHANGED core_data

CallExtlink ==
    /\ core_out["aircraft_website"] = Pending
    /\ core_out' = [core_out EXCEPT !["aircraft_website"] = get_acextlink(core_data)]
    /\ UNCHANGED core_data

CallAddress ==
    /\ core_out["address"] = Pending
    /\ core_out' = [core_out EXCEPT !["address"] = get_acaddress(core_data)]
    /\ UNCHANGED core_data

mergeVars == <<table, pc, inputs_df, start_ind, stop_ind, results_df, ind, log>>
backfillVars == <<df_index, una, n_updates>>
checkVars == <<current, df_tocheck, response>>
devstageVars == <<acsoup, itags_soup, dev_stage>>
autonVars == <<autonomy, auton_level>>
dropVars == <<cdf, drop_df, nullperc, null_cols>>
tuVars == <<directory_df, tu_table, tu_fetch, tu_local, tu_ret>>
pageVars == <<page, page_out>>
linksVars == <<dir_soup, categories, ac_dict>>
coreVars == <<core_data, core_out>>
vars == <<mergeVars, backfillVars, checkVars, devstageVars, autonVars, dropVars, tuVars, pageVars, linksVars, coreVars>>

MergeOff ==
    /\ table = <<>>
    /\ MergeIdle

\* the functions of transportup_funcs that no call has been made to
HygieneIdle == DevstageIdle /\ AutonIdle /\ DropIdle /\ TuIdle

InitCore == CoreInit /\ MergeOff /\ BackfillIdle /\ CheckIdle /\ HygieneIdle /\ PageIdle /\ LinksIdle

NextCore ==
    (CallModel \/ CallOem \/ CallExtlink \/ CallAddress)
       /\ UNCHANGED <<mergeVars, backfillVars, checkVars, devstageVars, autonVars, dropVars, tuVars, pageVars, linksVars>>

InitCheck ==
    /\ current \in LinkTables
    /\ df_tocheck \in LinkTables
    /\ response = Pending
    /\ MergeOff
    /\ BackfillIdle
    /\ HygieneIdle
    /\ PageIdle
    /\ LinksIdle
    /\ CoreIdle

NextCheck ==
    CallCheckUpdates /\ UNCHANGED <<mergeVars, backfillVars, devstageVars, autonVars, dropVars, tuVars, pageVars, linksVars, coreVars>>

SpecCheck == InitCheck /\ [][NextCheck]_vars

InitDevstage ==
    /\ acsoup = Unbound
    /\ itags_soup \in Soups
    /\ dev_stage = Pending
    /\ MergeOff
    /\ BackfillIdle
    /\ CheckIdle
    /\ AutonIdle
    /\ DropIdle
    /\ TuIdle
    /\ PageIdle
    /\ LinksIdle
    /\ CoreIdle

NextDevstage ==
    CallDevstage /\ UNCHANGED <<mergeVars, backfillVars, checkVars, autonVars, dropVars, tuVars, pageVars, linksVars, coreVars>>

SpecDevstage == InitDevstage /\ [][NextDevstage]_vars

InitAuton ==
    /\ autonomy \in AutonInputs
    /\ auton_level = Pending
    /\ MergeOff
    /\ BackfillIdle
    /\ CheckIdle
    /\ DevstageIdle
    /\ DropIdle
    /\ TuIdle
    /\ PageIdle
    /\ LinksIdle
    /\ CoreIdle

NextAuton ==
    CallAutonlevel /\ UNCHANGED <<mergeVars, backfillVars, checkVars, devstageVars, dropVars, tuVars, pageVars, linksVars, coreVars>>

SpecAuton == InitAuton /\ [][NextAuton]_vars

InitDrop ==
    /\ cdf = Unbound
    /\ drop_df \in NullTables
    /\ nullperc \in Thresholds
    /\ null_cols = Pending
    /\ MergeOff
    /\ BackfillIdle
    /\ CheckIdle
    /\ DevstageIdle
    /\ AutonIdle
    /\ TuIdle
    /\ PageIdle
    /\ LinksIdle
    /\ CoreIdle

NextDrop ==
    CallDropNullcols
       /\ UNCHANGED <<mergeVars, backfillVars, checkVars, devstageVars, autonVars, tuVars, pageVars, linksVars, coreVars>>

SpecDrop == InitDrop /\ [][NextDrop]_vars

InitTu ==
    /\ directory_df \in TuDirs
    /\ tu_table \in LinkTables
    /\ tu_fetch = [l \in Links |-> [ok |-> FALSE, soup |-> TuPage(<<>>, <<>>, <<>>)]]
    /\ tu_local = <<>>
    /\ tu_ret = Pending
    /\ MergeOff
    /\ BackfillIdle
    /\ CheckIdle
    /\ DevstageIdle
    /\ AutonIdle
    /\ DropIdle
    /\ PageIdle
    /\ LinksIdle
    /\ CoreIdle

NextTu ==
    CallTuAcdata
       /\ UNCHANGED <<mergeVars, backfillVars, checkVars, devstageVars, autonVars, dropVars, pageVars, linksVars, coreVars>>

SpecTu == InitTu /\ [][NextTu]_vars

InitPage ==
    /\ page \in Pages
    /\ page_out = [r \in PageRules |-> Pending]
    /\ MergeOff
    /\ BackfillIdle
    /\ CheckIdle
    /\ HygieneIdle
    /\ LinksIdle
    /\ CoreIdle

NextPage ==
    (\E r \in PageRules : CallPageRule(r))
       /\ UNCHANGED <<mergeVars, backfillVars, checkVars, devstageVars, autonVars, dropVars, tuVars, linksVars, coreVars>>

SpecPage == InitPage /\ [][NextPage]_vars

InitLinks ==
    /\ dir_soup \in DirSoups
    /\ categories \in CategoryLists
    /\ ac_dict = Pending
    /\ MergeOff
    /\ BackfillIdle
    /\ CheckIdle
    /\ HygieneIdle
    /\ PageIdle
    /\ CoreIdle

NextLinks ==
    CallAclinks
       /\ UNCHANGED <<mergeVars, backfillVars, checkVars, devstageVars, autonVars, dropVars, tuVars, pageVars, coreVars>>

SpecLinks == InitLinks /\ [][NextLinks]_vars

InitBackfill ==
    /\ table \in BackfillTables
    /\ MergeIdle
    /\ df_index \in {"None", "link"}
    /\ una = NoCall
    /\ n_updates = 0
    /\ CheckIdle /\ HygieneIdle
    /\ PageIdle
    /\ LinksIdle
    /\ CoreIdle

NextBackfill ==
    \E cs \in ColsLists, l \in Links, got \in Outcomes \cup {Fetched(p) : p \in BackfillPages} :
       UpdateNA(cs, l, got) /\ UNCHANGED <<checkVars, devstageVars, autonVars, dropVars, tuVars, pageVars, linksVars, coreVars>>

SpecBackfill == InitBackfill /\ [][NextBackfill]_vars

SpecCore == InitCore /\ [][NextCore]_vars

Init == MergeInit /\ BackfillIdle /\ CheckIdle /\ HygieneIdle /\ PageIdle /\ LinksIdle /\ CoreIdle

Next ==
    \/ (\E s \in StartInds, e \in StopInds, d \in Dirs : Call(s, e, d)) /\ UNCHANGED <<backfillVars, checkVars, devstageVars, autonVars, dropVars, tuVars, pageVars, linksVars, coreVars>>
    \/ StepSkip /\ UNCHANGED <<backfillVars, checkVars, devstageVars, autonVars, dropVars, tuVars, pageVars, linksVars, coreVars>>
    \/ StepRequestsError /\ UNCHANGED <<backfillVars, checkVars, devstageVars, autonVars, dropVars, tuVars, pageVars, linksVars, coreVars>>
    \/ StepAppendError /\ UNCHANGED <<backfillVars, checkVars, devstageVars, autonVars, dropVars, tuVars, pageVars, linksVars, coreVars>>
    \/ StepAppend /\ UNCHANGED <<backfillVars, checkVars, devstageVars, autonVars, dropVars, tuVars, pageVars, linksVars, coreVars>>
    \/ Return /\ UNCHANGED <<backfillVars, checkVars, devstageVars, autonVars, dropVars, tuVars, pageVars, linksVars, coreVars>>

Spec == Init /\ [][Next]_vars

(***************************************************************************)
(* Properties of the merge (specification Spec).                           *)
(***************************************************************************)
Unique(df) == \A j, k \in 1..Len(df) : j # k => df[j].link # df[k].link

\* the log entries of one kind, in order
EventsOf(e) == SelectSeq(log, LAMBDA x : x.ev = e)

\* the directory position (from 0) an entry of the log is about
PosOfEvent(x) == PosOf(Len(inputs_df), start_ind, x.ind)

(***************************************************************************)
(* C1: uniqueness.  From the empty table, after any sequence of            *)
(* scrape_appendnew calls, with any directory (also one that lists a link  *)
(* twice), any range and any fetch outcomes, no link occurs twice in the   *)
(* table, neither in the caller's table nor in the one being built.        *)
(***************************************************************************)
C1_LinkColumnUnique == Unique(table) /\ Unique(results_df)

\* a call has appended a link that the slice of its directory lists twice
C1_Witness ==
    /\ Done
    /\ \E x \in 1..Len(log) :
          /\ log[x].ev = "append"
          /\ \E j \in 0..(ind - 1) :
                /\ j # log[x].ind
                /\ inputs_df[PosOf(Len(inputs_df), start_ind, j) + 1].links = log[x].link

(***************************************************************************)
(* C2: idempotence.  When a call is about to return, running it again on   *)
(* the table it returns, with the same directory and range and with every  *)
(* link yielding what it yielded in this call, returns the same table.     *)
(***************************************************************************)
AgreesWithLog(st) ==
    \A x \in 1..Len(log) : log[x].ev = "fetch" => st[log[x].link] = log[x].got

C2_SecondRunIdentical ==
    Done =>
       \A st \in [Links -> Outcomes] :
          AgreesWithLog(st) =>
             scrape_appendnew(start_ind, stop_ind, inputs_df, results_df, st) = results_df

\* a first run that appended a row, had a fetch fail and had an assembly fail
C2_Witness ==
    /\ Done
    /\ \E st \in [Links -> Outcomes] : AgreesWithLog(st)
    /\ EventsOf("append") # <<>>
    /\ EventsOf("requests_error") # <<>> \/ EventsOf("append_error") # <<>>

(***************************************************************************)
(* C3: failure isolation.  A step in which the fetch of a link fails       *)
(* appends nothing and changes no row (results_df and the caller's table   *)
(* stay as they are), leaves the link absent from the table, and goes on   *)
(* to the next element of the slice; the call returns the table built so   *)
(* far to the caller.                                                      *)
(***************************************************************************)
FetchFails ==
    /\ pc = "loop"
    /\ Len(log') > Len(log)
    /\ log'[Len(log) + 1].ev = "fetch"
    /\ ~log'[Len(log) + 1].got.ok

C3_FetchFailureIsolated ==
    [][ /\ FetchFails =>
             /\ results_df' = results_df
             /\ table' = table
             /\ \A k \in 1..Len(results_df') : results_df'[k].link # log'[Len(log) + 1].link
             /\ pc' = "loop"
             /\ ind' = ind + 1
        /\ (pc = "loop" /\ pc' = "idle") => table' = results_df ]_vars

\* a fetch failed after a row was appended in the same call, and the call is returning
C3_Witness ==
    /\ Done
    /\ Len(results_df) > Len(table)
    /\ \E x, y \in 1..Len(log) :
          /\ x < y
          /\ log[x].ev = "append"
          /\ log[y].ev = "fetch"
          /\ ~log[y].got.ok

(***************************************************************************)
(* C4: scrape_appendnew fetches exactly the elements of the slice whose    *)
(* link is absent from the table when they are reached, in directory       *)
(* order, and when every fetch succeeds (and start_ind is not negative)    *)
(* the appended rows are those links in directory order after the existing *)
(* rows.                                                                   *)
(***************************************************************************)
FetchedInds == [x \in 1..Len(EventsOf("fetch")) |-> EventsOf("fetch")[x].ind]

\* the links in the table when element j of the slice is reached
LinksWhenReached(j) ==
    { table[k].link : k \in 1..Len(table) } \cup
    { log[x].link : x \in { y \in 1..Len(log) : log[y].ev = "append" /\ log[y].ind < j } }

C4_FetchOnlyNewInOrder ==
    pc = "loop" =>
       /\ \A x \in 1..Len(FetchedInds) :
             /\ FetchedInds[x] \in 0..(SliceLen(Len(inputs_df), start_ind, stop_ind) - 1)
             /\ \A y \in 1..(x - 1) : FetchedInds[y] < FetchedInds[x]
       /\ \A j \in 0..(ind - 1) :
             (\E x \in 1..Len(FetchedInds) : FetchedInds[x] = j)
                <=> inputs_df[PosOf(Len(inputs_df), start_ind, j) + 1].links
                       \notin LinksWhenReached(j)

C4_AppendsFetchedInOrder ==
    /\ C4_FetchOnlyNewInOrder
    /\ (Done /\ start_ind >= 0 /\ \A x \in 1..Len(log) : log[x].ev = "fetch" => log[x].got.ok) =>
          LinkColumn(results_df) =
             LinkColumn(table) \o [x \in 1..Len(EventsOf("fetch")) |-> EventsOf("fetch")[x].link]

(***************************************************************************)
(* C6: the category is carried through.  Every row a call has appended     *)
(* has the link and the category of the directory position it was fetched  *)
(* from, whatever the range, and the rows the call was given are still     *)
(* there unchanged.                                                        *)
(***************************************************************************)
C6_CategoryCarriedThrough ==
    pc = "loop" =>
       LET apps == EventsOf("append")
       IN  /\ Len(results_df) = Len(table) + Len(apps)
           /\ \A k \in 1..Len(table) : results_df[k] = table[k]
           /\ \A j \in 1..Len(apps) :
                 /\ results_df[Len(table) + j].link = inputs_df[PosOfEvent(apps[j]) + 1].links
                 /\ results_df[Len(table) + j].category
                       = inputs_df[PosOfEvent(apps[j]) + 1].category

\* a row was appended from a slice that does not start at 0, and the directory's
\* first entry carries another category
C6_Witness ==
    /\ Done
    /\ start_ind > 0
    /\ Len(table) > 0
    /\ \E x \in 1..Len(log) :
          /\ log[x].ev = "append"
          /\ inputs_df[PosOfEvent(log[x]) + 1].category # inputs_df[log[x].ind + 1].category

(***************************************************************************)
(* C16 (specification Spec): in every run of scrape_appendnew the page     *)
(* fetches happen one at a time and a sleep lies between any two           *)
(* consecutive fetches, also when the earlier fetch or the assembly of the *)
(* earlier row failed; an iteration whose link is already in the table     *)
(* makes no fetch and no sleep.                                            *)
(***************************************************************************)
SleepBetweenFetches(l) ==
    \A x, y \in 1..Len(l) :
       (x < y /\ l[x].ev = "fetch" /\ l[y].ev = "fetch") =>
          \E z \in (x + 1)..(y - 1) : l[z].ev = "sleep"

C16_SleepBetweenFetches ==
    [][ /\ SleepBetweenFetches(log')
        /\ (pc = "loop" /\ ind' = ind + 1) =>
              LET link == inputs_df[PosOf(Len(inputs_df), start_ind, ind) + 1].links
                  known == \E k \in 1..Len(results_df) : results_df[k].link = link
                  added == SubSeq(log', Len(log) + 1, Len(log'))
              IN  /\ Len(log') >= Len(log)
                  /\ known => log' = log
                  /\ ~known => /\ Len(added) = 3
                               /\ added[1].ev = "fetch" /\ added[1].link = link
                               /\ added[2].ev \in {"requests_error", "append_error", "append"}
                               /\ added[3].ev = "sleep" ]_vars

\* two fetches in one run: the first fetch failed, the assembly after the second failed
C16_Witness ==
    /\ pc = "loop"
    /\ Len(log) = 6
    /\ log[1].ev = "fetch" /\ log[2].ev = "requests_error" /\ log[3].ev = "sleep"
    /\ log[4].ev = "fetch" /\ log[5].ev = "append_error" /\ log[6].ev = "sleep"

(***************************************************************************)
(* C5: backfill frame (specification SpecBackfill).  After update_na has   *)
(* returned for a link that is a row of the table, that row holds, in the  *)
(* columns named in cols_list, the values the rules extracted from the     *)
(* page just fetched, every other cell of the row is as before, and so is  *)
(* every other row.                                                        *)
(***************************************************************************)
C5_BackfillOverwritesNamedCells ==
    (una.status = "returned" /\ \E k \in 1..Len(una.before) : una.before[k].link = una.link) =>
       /\ Len(table) = Len(una.before)
       /\ \A k \in 1..Len(table) :
             IF una.before[k].link # una.link THEN table[k] = una.before[k]
             ELSE \A c \in DOMAIN table[k] :
                     table[k][c] = IF c \in una.cols THEN una.fresh[c] ELSE una.before[k][c]

(***************************************************************************)
(* C13 (specification SpecBackfill): update_na called with a table that is *)
(* not indexed by link fails with an error and leaves the table, its index *)
(* included, as it was.                                                    *)
(***************************************************************************)
C13_BackfillUnkeyedFailsFast ==
    [][ (n_updates' # n_updates /\ df_index # "link") =>
           /\ una'.status = "raised"
           /\ table' = table
           /\ df_index' = df_index ]_vars

(***************************************************************************)
(* C8 (specification SpecCheck): check_updates reports exactly             *)
(* len(current) - len(df_tocheck) new aircraft when the directory is       *)
(* longer ("3" when it is 3 longer), reports 'up to date' when the lengths *)
(* are equal, and changes neither table.                                   *)
(***************************************************************************)
C8_CheckUpdatesReportsDifference ==
    [][ response' # response =>
          /\ current' = current
          /\ df_tocheck' = df_tocheck
          /\ Len(current) > Len(df_tocheck) =>
                \E d \in 1..Len(current) :
                   /\ d = Len(current) - Len(df_tocheck)
                   /\ response'.val = <<"NOT up to date. ">> \o Format(d)
                                         \o <<" new aircraft exist">>
          /\ Len(current) = Len(df_tocheck) + 3 =>
                response'.val = <<"NOT up to date. ", "3", " new aircraft exist">>
          /\ Len(current) = Len(df_tocheck) =>
                response'.val = <<"Your df is up to date. No update needed.">> ]_vars

\* the call has reported 3 new aircraft for a directory 3 rows longer than the table
C8_Witness ==
    /\ Len(current) = Len(df_tocheck) + 3
    /\ response = Str(<<"NOT up to date. ", "3", " new aircraft exist">>)

(***************************************************************************)
(* C9 (specification SpecDevstage): given a document whose marker-carrying *)
(* icons are the 5 ordered stage icons, get_devstage returns the stage     *)
(* name at the index of the first icon that has a color and a fill other   *)
(* than "0%" (index 2 gives 'flight testing'), and null when no icon       *)
(* qualifies.                                                              *)
(***************************************************************************)
StageIcons(doc) == SelectSeq(doc, LAMBDA tag : tag.marker)
Qualifying(doc) ==
    { i \in 0..(Len(StageIcons(doc)) - 1) :
         StageIcons(doc)[i + 1].color /\ StageIcons(doc)[i + 1].fill # <<"0", "%">> }

C9_DevstageDecodesFirstFilledIcon ==
    (dev_stage # Pending /\ Len(StageIcons(itags_soup)) = 5) =>
        IF Qualifying(itags_soup) = {} THEN dev_stage = PyNone
        ELSE \E i \in Qualifying(itags_soup) :
                /\ \A j \in Qualifying(itags_soup) : i <= j
                /\ dev_stage = Str(<<"preliminary design", "prototype build", "flight testing",
                                     "certification", "commercially operating">>[i + 1])

(***************************************************************************)
(* C10 (specification SpecAuton): assign_autonlevel never raises and maps  *)
(* every input, null and numbers included, to exactly one of the five      *)
(* categories, the one of the first rule that matches the lower-cased text *)
(* of the input; 'Semi-Autonomous' gives 'semi autonomous', 'Piloted,      *)
(* semi-autonomous' gives 'piloted semi autonomous', 'foobar' gives        *)
(* 'undisclosed'.                                                          *)
(***************************************************************************)
Has(v, word) == Contains(lower(PyStr(v)), word)

Missing(c) == Cardinality({k \in 1..Len(c.isna) : c.isna[k]})
ToDrop(c, perc) == Len(c.isna) > 0 /\ Missing(c) * perc.den >= perc.num * Len(c.isna)

C11_DropNullcolsPrunes ==
    [][ null_cols' # null_cols =>
          /\ null_cols'.kind = "list"
          /\ \A k \in 1..Len(drop_df) :
                /\ ToDrop(drop_df[k], nullperc) <=>
                      \E j \in 1..Len(null_cols'.val) : null_cols'.val[j] = drop_df[k].name
                /\ ToDrop(drop_df[k], nullperc) <=>
                      ~\E j \in 1..Len(drop_df') : drop_df'[j] = drop_df[k]
          /\ \A j \in 1..Len(drop_df') : \E k \in 1..Len(drop_df) : drop_df'[j] = drop_df[k] ]_vars

(***************************************************************************)
(* C12 (specification SpecTu): get_tu_acdata hands a table back to the     *)
(* caller that holds the rows of the table it was given and, for each      *)
(* directory link that was absent from that table and whose page fetch     *)
(* succeeded, one row for the link with the directory's category and       *)
(* ac_name.                                                                *)
(***************************************************************************)
C12_TuMergeReturnsUpdatedTable ==
    tu_ret # Pending =>
       /\ tu_ret.kind = "list"
       /\ \A k \in 1..Len(tu_table) : tu_ret.val[k] = tu_table[k]
       /\ \A i \in 1..Len(directory_df) :
             ((~\E k \in 1..Len(tu_table) : tu_table[k].link = directory_df[i].link)
                 /\ tu_fetch[directory_df[i].link].ok)
             => Cardinality({ k \in 1..Len(tu_ret.val) :
                                 tu_ret.val[k].link = directory_df[i].link }) = 1

(***************************************************************************)
(* C14 (specification SpecPage): for every document get_acresources and    *)
(* get_acspecs return a sequence and never raise: the empty sequence when  *)
(* no <p> holds the label, and otherwise the anchor targets / the cleaned  *)
(* item texts of the unordered lists after the labelled <p>, whatever the  *)
(* position of that <p> among the <p> tags, the first one included.        *)
(***************************************************************************)
Labelled(soup, label) ==
    { i \in 0..(Len(acptags(soup)) - 1) :
         \E k \in 1..Len(Contents(acptags(soup)[i + 1])) :
            LabelIn(label, Contents(acptags(soup)[i + 1])[k]) }
ItemsAfter(soup, label) ==
    ListElements(ListsAfter(soup, CHOOSE i \in Labelled(soup, label) :
                                     \A j \in Labelled(soup, label) : j <= i))

C14_ListRulesPositionIndependent ==
    /\ page_out["resources"] # Pending =>
          /\ page_out["resources"].kind = "list"
          /\ Labelled(page, ResourcesLabel) = {} => page_out["resources"].val = <<>>
          /\ Labelled(page, ResourcesLabel) # {} =>
                LET as == SelectSeq(ItemsAfter(page, ResourcesLabel), LAMBDA e : e.name = "a")
                IN  page_out["resources"].val = [k \in 1..Len(as) |-> GetHref(as[k])]
    /\ page_out["specs"] # Pending =>
          /\ page_out["specs"].kind = "list"
          /\ Labelled(page, SpecsLabel) = {} => page_out["specs"].val = <<>>
          /\ Labelled(page, SpecsLabel) # {} =>
                LET es == ItemsAfter(page, SpecsLabel)
                IN  page_out["specs"].val = [k \in 1..Len(es) |-> CleanSpec(es[k])]

(***************************************************************************)
(* C15 (specification SpecPage): get_acstatus returns 'defunct' exactly    *)
(* when the name get_acname extracts contains 'defunct', 'active' when the *)
(* name was extracted and does not contain it, and 'N/A' when name         *)
(* extraction failed (get_acname gave its 'N/A' fallback, e.g. no <h1>).   *)
(***************************************************************************)
NameFailed(soup) ==
    \/ soup.h1 = <<>>
    \/ \E k \in 1..Len(Contents(soup.h1[1])) : IsTag(Contents(soup.h1[1])[k])

C15_StatusFromName ==
    page_out["status"] # Pending =>
       IF NameFailed(page) THEN page_out["status"] = Str(<<"N", "/", "A">>)
       ELSE IF Contains(NodeText(page.h1[1]), <<"d", "e", "f", "u", "n", "c", "t">>)
            THEN page_out["status"] = Str(<<"d", "e", "f", "u", "n", "c", "t">>)
            ELSE page_out["status"] = Str(<<"a", "c", "t", "i", "v", "e">>)

(***************************************************************************)
(* C17 (specification SpecLinks): given a category label for every ordered *)
(* list, get_aclinks returns a mapping in which every link of the page     *)
(* occurs once and carries the category of the first ordered list in which *)
(* it appears (the i-th list paired with the i-th label), however often    *)
(* and wherever it appears again; a list item without an anchor gives the  *)
(* key 'error at index: <list position>' and the call does not raise.      *)
(***************************************************************************)
\* the key of item j of list i (lists counted from 0)
KeyOf(i, j) ==
    LET li == dir_soup[i + 1].kids[j]
    IN  IF \E k \in 1..Len(li.kids) : li.kids[k].name = "a"
        THEN (LET a == li.kids[CHOOSE k \in 1..Len(li.kids) : li.kids[k].name = "a"]
              IN  IF a.has_href THEN Str(a.href) ELSE PyNone)
        ELSE Str(<<"error at index: ", Digit(i)>>)
Positions == { p \in (0..(Len(dir_soup) - 1)) \X (1..2) : p[2] <= Len(dir_soup[p[1] + 1].kids) }

C17_AclinksFirstCategoryWins ==
    (ac_dict # Pending /\ Len(categories) >= Len(dir_soup)) =>
       /\ ac_dict.kind = "dict"
       /\ \A j, k \in 1..Len(ac_dict.val) : j # k => ac_dict.val[j].key # ac_dict.val[k].key
       /\ \A k \in 1..Len(ac_dict.val) : \E p \in Positions : KeyOf(p[1], p[2]) = ac_dict.val[k].key
       /\ \A p \in Positions :
             \E k \in 1..Len(ac_dict.val) :
                /\ ac_dict.val[k].key = KeyOf(p[1], p[2])
                /\ \E q \in Positions :
                      /\ KeyOf(q[1], q[2]) = KeyOf(p[1], p[2])
                      /\ \A r \in Positions : KeyOf(r[1], r[2]) = KeyOf(p[1], p[2]) => q[1] <= r[1]
                      /\ ac_dict.val[k].val = categories[q[1] + 1]

\* a link listed in the first and in the second list, and an item without an anchor
C17_Witness ==
    /\ ac_dict # Pending
    /\ ac_dict.kind = "dict"
    /\ Len(dir_soup) = 2
    /\ \E p, q \in Positions : p[1] = 0 /\ q[1] = 1 /\ KeyOf(p[1], p[2]) = KeyOf(q[1], q[2])
                               /\ KeyOf(p[1], p[2]) = Str(<<"l1">>)
    /\ \E k \in 1..Len(ac_dict.val) : ac_dict.val[k].key = Str(<<"error at index: ", "1">>)

(***************************************************************************)
(* C7: each core-data rule returns an extracted string or 'N/A'; it never  *)
(* raises and never returns None.  Once a rule has been called on any      *)
(* core-data input, its result is a string.                                *)
(***************************************************************************)
C7_RulesReturnStringOrNA ==
    \A r \in CoreRules : core_out[r] # Pending => core_out[r].kind = "str"

=============================================================================
